---------------------------- MODULE Spec2Model ----------------------------
(***************************************************************************)
(* HAperf: the dual (plaintext + TLS) connection listener.                 *)
(*                                                                         *)
(* The model follows src/server/src/HttpServer.cpp (class HttpServer) as   *)
(* started by src/src/main.cpp: main creates two threads, each constructs  *)
(* an HttpServer and calls run(); run() resolves, creates, binds and       *)
(* listens, then loops on accept() and detaches one thread per accepted    *)
(* connection.  The HTTP::Server / HTTP::ServerSSL drafts                  *)
(* (src/unnamed/part_003, src/src/http/HttpServer/HttpServer.h) hold the   *)
(* same statements split over two classes.                                 *)
(*                                                                         *)
(* Bytes are integers 0..255; strings that go on the wire are sequences of *)
(* their ASCII codes.                                                      *)
(***************************************************************************)
EXTENDS Integers, Sequences, FiniteSets

VARIABLES
    proc,      \* the process: "running", or how it ended
    mainpc,    \* position of main()
    lis,       \* lis[l]: the HttpServer object of listener l and its thread
    conn,      \* conn[c]: the c-th accepted connection and its task
    nconn,     \* number of connections accepted so far
    openfds,   \* the descriptor numbers open in the process
    stderr,    \* the distinct messages written to standard error
    env,       \* what the program finds outside: the PEM files, the resolver
    cli        \* a call of parse_options: its arguments and what it left

vars == <<proc, mainpc, lis, conn, nconn, openfds, stderr, env, cli>>

(***************************************************************************)
(* Bounds of the model.                                                    *)
(***************************************************************************)
\* The buffer of the handlers, char buffer[1024], scaled down.
BufSize == 3
\* Connections accepted in one run, over both listeners.
MaxConn == 2
\* Bytes found behind the buffer by an over-read, at most.
MaxSpill == 1
\* The clock runs over 0..MaxClock seconds.
MaxClock == 0

Listeners == {"http", "https"}
Conns     == 1..MaxConn
Bytes     == {0, 65}
NonZero   == Bytes \ {0}
Clock     == 0..MaxClock

\* First descriptor number not taken by stdin, stdout, stderr.
FirstFd == Cardinality({"stdin", "stdout", "stderr"})

\* All sequences over S of length 0..n.
RECURSIVE SeqUpTo(_, _)
SeqUpTo(S, n) ==
    IF n = 0 THEN {<<>>}
    ELSE LET shorter == SeqUpTo(S, n - 1)
         IN  shorter \cup {Append(s, b) : s \in {t \in shorter : Len(t) = n - 1}, b \in S}

Min(a, b) == IF a < b THEN a ELSE b

\* The kernel hands out the lowest descriptor number that is not open.
LowestFree(open) ==
    CHOOSE n \in FirstFd..(FirstFd + Cardinality(open)) :
        /\ n \notin open
        /\ \A m \in FirstFd..(n - 1) : m \in open

(***************************************************************************)
(* Response composition.                                                   *)
(***************************************************************************)
\* "HTTP/1.1 200 OK\r\nContent-Type: text/plain\r\n\r\n"
ResponseHead ==
    <<72, 84, 84, 80, 47, 49, 46, 49, 32, 50, 48, 48, 32, 79, 75, 13, 10,
      67, 111, 110, 116, 101, 110, 116, 45, 84, 121, 112, 101, 58, 32,
      116, 101, 120, 116, 47, 112, 108, 97, 105, 110, 13, 10, 13, 10>>

\* " - received:\n\n"
ReceivedMarker ==
    <<32, 45, 32, 114, 101, 99, 101, 105, 118, 101, 100, 58, 10, 10>>

\* Two decimal digits, zero padded (%H, %M, %S).
TwoDigits(n) == <<48 + ((n \div 10) % 10), 48 + (n % 10)>>

\* put_time(localtime(t), "%Y-%m-%d %H:%M:%S") for a clock value t of the
\* first day of the epoch, local time zone UTC: "1970-01-01 HH:MM:SS".
get_formatted_time(t) ==
    <<49, 57, 55, 48, 45, 48, 49, 45, 48, 49, 32>>
        \o TwoDigits(t \div 3600) \o <<58>>
        \o TwoDigits((t \div 60) % 60) \o <<58>>
        \o TwoDigits(t % 60)

\* char buffer[1024] = {0}: BufSize zero bytes.
ZeroBuffer == [i \in 1..BufSize |-> 0]

\* The buffer after read() stored the first n bytes of data in it.
FillBuffer(data, n) == [i \in 1..BufSize |-> IF i <= n THEN data[i] ELSE 0]

\* Index of the first zero byte of the buffer, BufSize + 1 when it has none.
FirstZero(buffer) ==
    IF \E i \in 1..BufSize : buffer[i] = 0
    THEN CHOOSE i \in 1..BufSize : buffer[i] = 0 /\ \A j \in 1..(i - 1) : buffer[j] # 0
    ELSE BufSize + 1

\* The buffer holds no terminating zero byte.
Unterminated(buffer) == FirstZero(buffer) = BufSize + 1

\* What `response += buffer` appends: buffer is a char array, so the bytes up
\* to its first zero byte.  A buffer the read filled completely with non-zero
\* bytes has no terminator and the append reads on past the array (undefined
\* behaviour): spill stands for whatever non-zero bytes lie behind it.
CString(buffer, spill) ==
    SubSeq(buffer, 1, FirstZero(buffer) - 1)
        \o (IF Unterminated(buffer) THEN spill ELSE <<>>)

\* The bytes an over-read may find behind the buffer.
Spills == SeqUpTo(NonZero, MaxSpill)

\* response = head; response += current_time + " - received:\n\n";
\* response += buffer;
ComposeResponse(t, buffer, spill) ==
    ResponseHead \o get_formatted_time(t) \o ReceivedMarker \o CString(buffer, spill)

(***************************************************************************)
(* What clients send.  A wire is the byte sequence available on the        *)
(* connection when the handler reads.                                      *)
(***************************************************************************)
EmptyWire == <<>>
ShortWire == <<65>>

\* Every wire of at most one byte more than the buffer holds.
Wires == SeqUpTo(Bytes, BufSize + 1)

\* The wires of the runs that explore the interleavings of the threads: a
\* client that sends nothing and one that sends a short request.  The
\* clients of one such run all do the same.
ControlWires == {EmptyWire, ShortWire}

\* A request that fills the buffer exactly, no zero byte in it.
FullWire == [i \in 1..BufSize |-> 65]

\* The wires of the runs that explore two handlers at the same time: a short
\* request and one that fills the buffer.
PairWires == {ShortWire, FullWire}

(***************************************************************************)
(* The HttpServer constructor.                                             *)
(***************************************************************************)
\* The values the options -c and -k can have: not given, or a path.
CertFileOptions == {"", "cert.pem"}
CertKeyOptions  == {"", "key.pem"}

\* cert_to_use / key_to_use of main: the option, or the fallback path when
\* the option is empty.
cert_to_use == IF env.cert_file = "" THEN "ssl/server.crt" ELSE env.cert_file
key_to_use  == IF env.cert_key = "" THEN "ssl/server.key" ELSE env.cert_key

\* The values the options -a and -p can have: not given, or a value.
AddressOptions == {"", "192.168.1.2"}
PortOptions    == {"", "8080", "443"}

\* address_to_use / port_to_use of main: the option, or "::" and "80".
address_to_use == IF env.address = "" THEN "::" ELSE env.address
port_to_use    == IF env.port = "" THEN "80" ELSE env.port

\* main passing port_to_use to the TLS listener as well.
CtorArgs_SamePort(l) ==
    IF l = "http"
    THEN [address |-> address_to_use, port |-> port_to_use,
          cert_file |-> "", key_file |-> ""]
    ELSE [address |-> address_to_use, port |-> port_to_use,
          cert_file |-> cert_to_use, key_file |-> key_to_use]

\* The constructor arguments main passes for listener l; the two-argument
\* call for the plaintext listener leaves cert_file and key_file empty.
CtorArgs(l) ==
    IF l = "http"
    THEN [address |-> address_to_use, port |-> port_to_use,
          cert_file |-> "", key_file |-> ""]
    ELSE [address |-> address_to_use, port |-> "443",
          cert_file |-> cert_to_use, key_file |-> key_to_use]

\* The constructor with use_ssl_ set as soon as one of the two paths is
\* given.
HttpServerCtor_EitherPath(cert_file, key_file, files) ==
    LET use_ssl == cert_file # "" \/ key_file # ""
    IN  IF ~use_ssl
        THEN [use_ssl |-> FALSE, ctx |-> "null", what |-> ""]
        ELSE IF ~files.cert
        THEN [use_ssl |-> TRUE, ctx |-> "ctx", what |-> "Failed to load server certificate"]
        ELSE IF ~files.key
        THEN [use_ssl |-> TRUE, ctx |-> "ctx", what |-> "Failed to load server private key"]
        ELSE IF ~files.match
        THEN [use_ssl |-> TRUE, ctx |-> "ctx",
              what |-> "Server private key does not match the certificate public key"]
        ELSE [use_ssl |-> TRUE, ctx |-> "ctx", what |-> ""]

\* The constructor without the SSL_CTX_check_private_key test.
HttpServerCtor_NoKeyCheck(cert_file, key_file, files) ==
    LET use_ssl == cert_file # "" /\ key_file # ""
    IN  IF ~use_ssl
        THEN [use_ssl |-> FALSE, ctx |-> "null", what |-> ""]
        ELSE IF ~files.cert
        THEN [use_ssl |-> TRUE, ctx |-> "ctx", what |-> "Failed to load server certificate"]
        ELSE IF ~files.key
        THEN [use_ssl |-> TRUE, ctx |-> "ctx", what |-> "Failed to load server private key"]
        ELSE [use_ssl |-> TRUE, ctx |-> "ctx", what |-> ""]

\* The constructor: use_ssl_, ctx_ and the message of the exception it throws
\* ("" when it returns).  files tells what the two PEM files hold.
HttpServerCtor(cert_file, key_file, files) ==
    LET use_ssl == cert_file # "" /\ key_file # ""
    IN  IF ~use_ssl
        THEN [use_ssl |-> FALSE, ctx |-> "null", what |-> ""]
        ELSE IF ~files.cert
        THEN [use_ssl |-> TRUE, ctx |-> "ctx", what |-> "Failed to load server certificate"]
        ELSE IF ~files.key
        THEN [use_ssl |-> TRUE, ctx |-> "ctx", what |-> "Failed to load server private key"]
        ELSE IF ~files.match
        THEN [use_ssl |-> TRUE, ctx |-> "ctx",
              what |-> "Server private key does not match the certificate public key"]
        ELSE [use_ssl |-> TRUE, ctx |-> "ctx", what |-> ""]

(***************************************************************************)
(* State.                                                                  *)
(***************************************************************************)
\* A connection slot before accept() filled it.
NoConn ==
    [lis |-> "none", fd |-> -1, open |-> FALSE, ssl |-> "none", hs |-> "none",
     task |-> FALSE, threads |-> 0, sslp |-> 0,
     pc |-> "idle", wire |-> <<>>, didread |-> FALSE, valread |-> 0,
     buffer |-> ZeroBuffer, response |-> <<>>, wrote |-> FALSE, written |-> 0,
     events |-> <<>>, now |-> 0]

\* A listener before its thread exists.
NoListener ==
    [pc |-> "unstarted", use_ssl |-> FALSE, ctx |-> "null", server_fd |-> -1,
     use_ipv6 |-> FALSE, res |-> FALSE, cur |-> 0, what |-> "", trail |-> <<>>,
     cert_file |-> "", key_file |-> "", address |-> "", port |-> "",
     family |-> "none", bound |-> "none"]

\* ai_family of the first result of getaddrinfo.
FirstResultFamily == IF env.v6 THEN "AF_INET6" ELSE "AF_INET"

\* The startup calls of run(), in the order of its statements.
StartupOrder == <<"getaddrinfo", "socket", "setsockopt", "bind", "listen">>

\* The listener r after one more startup call returned: trail holds, oldest
\* first, every startup call the thread made and whether it succeeded.
Called(r, call, ok) == [r EXCEPT !.trail = Append(@, [call |-> call, ok |-> ok])]

(***************************************************************************)
(* parse_options.  The command line is the sequence of the options given,  *)
(* each an option letter with its argument, and the command word behind    *)
(* them; -h and -V, which print and end the process, are left out.         *)
(***************************************************************************)
\* The longest option sequence of the command lines gone through.
MaxArgs == 2

OptionTokens ==
    {[opt |-> "v", arg |-> ""], [opt |-> "c", arg |-> "cert.pem"],
     [opt |-> "k", arg |-> "key.pem"], [opt |-> "a", arg |-> "192.168.1.2"],
     [opt |-> "p", arg |-> "8080"], [opt |-> "p", arg |-> "443"]}
CommandWords == {"", "record", "replay"}

\* struct Options and struct Commands as their member initialisers leave
\* them.
DefaultOptions ==
    [verbose |-> FALSE, cert_file |-> "", cert_key |-> "", address |-> "",
     port |-> ""]
DefaultCommands == [record |-> FALSE, replay |-> FALSE]

\* One case of the switch on the letter getopt_long returned.
SetOption(opts, t) ==
    IF t.opt = "v" THEN [opts EXCEPT !.verbose = TRUE]
    ELSE IF t.opt = "c" THEN [opts EXCEPT !.cert_file = t.arg]
    ELSE IF t.opt = "k" THEN [opts EXCEPT !.cert_key = t.arg]
    ELSE IF t.opt = "a" THEN [opts EXCEPT !.address = t.arg]
    ELSE IF t.opt = "p" THEN [opts EXCEPT !.port = t.arg]
    ELSE opts

\* while ((opt = getopt_long(...)) != -1) switch (opt) ...
RECURSIVE GetoptLoop(_, _)
GetoptLoop(opts, args) ==
    IF args = <<>> THEN opts
    ELSE GetoptLoop(SetOption(opts, Head(args)), Tail(args))

\* parse_options(argc, argv, options, commands): the loop fills the local
\* `Options opts`, which is returned; commands is written through its
\* reference; no statement of the function names options.
parse_options(args, command, options, commands) ==
    [ret      |-> GetoptLoop(DefaultOptions, args),
     options  |-> options,
     commands |-> IF command = "record" THEN [commands EXCEPT !.record = TRUE]
                  ELSE IF command = "replay" THEN [commands EXCEPT !.replay = TRUE]
                  ELSE commands]

\* No call of parse_options in this run.
NoCli ==
    [pc |-> "none", args |-> <<>>, command |-> "", options |-> DefaultOptions,
     commands |-> DefaultCommands, ret |-> DefaultOptions]

\* What the run is given and finds outside the process: the command line
\* (whether the recorder was asked for, the options -c and -k), whether the
\* certificate file and the key file load (the options -a and -p are left
\* at their defaults here; SpecMain goes through them), whether the key matches the certificate (it can only
\* when both load), whether the first address getaddrinfo returns is an IPv6
\* one (it is for "::", the address main uses when none is given), and what
\* is explored: the interleavings of the threads ("threads": clients that
\* send a short request, "silent": clients that send nothing; one clock
\* value, writes that send all or a part), the data the handlers work on ("data": every wire, every
\* clock value) or two handlers at work at the same time ("pair": two
\* wires, one clock value).
Environments ==
    {e \in [recorder_enabled : BOOLEAN, cert_file : CertFileOptions,
            cert_key : CertKeyOptions, address : {""}, port : {""},
            cert : BOOLEAN, key : BOOLEAN, match : BOOLEAN, v6 : {TRUE},
            explore : {"threads", "silent"}] : e.match => (e.cert /\ e.key)}

\* The wires the clients of this run send, and the values its clock shows.
ClientWires ==
    IF env.explore = "data" THEN Wires
    ELSE IF env.explore = "pair" THEN PairWires
    ELSE IF env.explore = "silent" THEN {EmptyWire}
    ELSE ControlWires \ {EmptyWire}
ClockValues == IF env.explore = "data" THEN Clock ELSE {0}

Init ==
    /\ proc = "running"
    /\ mainpc = "validate"
    /\ lis = [l \in Listeners |-> NoListener]
    /\ conn = [c \in Conns |-> NoConn]
    /\ nconn = 0
    /\ openfds = {}
    /\ stderr = {}
    /\ env \in Environments
    /\ cli = NoCli

Running == proc = "running"

\* The accept loop of l has been entered.
InLoop(l) == lis[l].pc \in {"accept", "handshake"}

(***************************************************************************)
(* main: the two listener threads.                                         *)
(***************************************************************************)
\* The process ends: its threads are gone and the kernel closes every
\* descriptor it held.
ProcessGone ==
    /\ conn' = [c \in Conns |-> NoConn]
    /\ nconn' = 0
    /\ openfds' = {}

\* The message main prints when -c or -k is missing.
RequiredMessage == "Error: Certificate file and certificate key are required for recorder"

\* main with the test of cert_file and cert_key left out: the recorder
\* starts with whatever cert_to_use and key_to_use are.
MainValidate_NoCheck ==
    /\ Running
    /\ mainpc = "validate"
    /\ IF ~env.recorder_enabled
       THEN /\ proc' = "exit1"
            /\ mainpc' = "exited"
       ELSE /\ proc' = proc
            /\ mainpc' = "spawn_http"
    /\ UNCHANGED <<lis, conn, nconn, openfds, stderr, env, cli>>

\* main with the test of !recorder_enabled left out: without the record
\* command the program goes on to start its listeners.
MainValidate_NoCommandCheck ==
    /\ Running
    /\ mainpc = "validate"
    /\ IF env.recorder_enabled /\ (env.cert_file = "" \/ env.cert_key = "")
       THEN /\ stderr' = stderr \cup {RequiredMessage}
            /\ proc' = "exit1"
            /\ mainpc' = "exited"
       ELSE /\ stderr' = stderr
            /\ proc' = proc
            /\ mainpc' = "spawn_http"
    /\ UNCHANGED <<lis, conn, nconn, openfds, env, cli>>

\* if (recorder_enabled) { if (cert_file.empty() || cert_key.empty())
\* { std::cerr << ...; usage(); exit(1); } }
\* if (!recorder_enabled) { usage(); exit(1); }
MainValidate ==
    /\ Running
    /\ mainpc = "validate"
    /\ IF env.recorder_enabled /\ (env.cert_file = "" \/ env.cert_key = "")
       THEN /\ stderr' = stderr \cup {RequiredMessage}
            /\ proc' = "exit1"
            /\ mainpc' = "exited"
       ELSE IF ~env.recorder_enabled
       THEN /\ stderr' = stderr
            /\ proc' = "exit1"
            /\ mainpc' = "exited"
       ELSE /\ stderr' = stderr
            /\ proc' = proc
            /\ mainpc' = "spawn_http"
    /\ UNCHANGED <<lis, conn, nconn, openfds, env, cli>>

\* main with http_thread.join() moved before the second std::thread.
MainSpawn_JoinFirst ==
    /\ Running
    /\ mainpc \in {"spawn_http", "spawn_https"}
    /\ LET l == IF mainpc = "spawn_http" THEN "http" ELSE "https"
       IN  lis' = [lis EXCEPT ![l].pc = "ctor"]
    /\ mainpc' = "join"
    /\ UNCHANGED <<proc, conn, nconn, openfds, stderr, env, cli>>

\* std::thread http_thread(...); std::thread https_thread(...); then join.
\* The constructor of std::thread throws std::system_error when no thread
\* can be made.  From the first statement the exception reaches the handler
\* of main; from the second the unwinding destroys http_thread, which is
\* joinable, and ~thread calls std::terminate.
MainSpawn ==
    /\ Running
    /\ mainpc \in {"spawn_http", "spawn_https"}
    /\ \E ok \in BOOLEAN :
          IF ok
          THEN /\ LET l == IF mainpc = "spawn_http" THEN "http" ELSE "https"
                  IN  lis' = [lis EXCEPT ![l].pc = "ctor"]
               /\ mainpc' = IF mainpc = "spawn_http" THEN "spawn_https" ELSE "join"
               /\ UNCHANGED <<proc, conn, nconn, openfds>>
          ELSE IF mainpc = "spawn_http"
          THEN /\ mainpc' = "catch"
               /\ UNCHANGED <<proc, lis, conn, nconn, openfds>>
          ELSE /\ mainpc' = "unwinding"
               /\ proc' = "terminate"
               /\ ProcessGone
               /\ lis' = lis
    /\ UNCHANGED <<stderr, env, cli>>

\* catch (const std::exception& e) { std::cerr << "Error running server: "
\* << e.what(); }  return 0;
MainCatch ==
    /\ Running
    /\ mainpc = "catch"
    /\ stderr' = stderr \cup {"Error running server"}
    /\ mainpc' = "returned"
    /\ proc' = "exit0"
    /\ ProcessGone
    /\ lis' = lis
    /\ env' = env
    /\ cli' = cli

\* The status the parent of the process sees, as a shell reports it: the
\* argument of exit or the value main returned, 128 + the signal number
\* when a signal ended it (SIGABRT 6 from std::terminate, SIGPIPE 13).
ExitStatus(p) ==
    IF p = "exit0" THEN 0
    ELSE IF p = "exit1" THEN 1
    ELSE IF p = "terminate" THEN 128 + 6
    ELSE 128 + 13

\* An exception leaves the thread's lambda: nothing in the thread catches it
\* (the try block of main is on another thread), so std::terminate ends the
\* process.  rec is the listener as the throwing statement left it.
Throws(l, rec, what, log) ==
    /\ lis' = [lis EXCEPT ![l] = [rec EXCEPT !.pc = "failed", !.what = what]]
    /\ proc' = "terminate"
    /\ stderr' = stderr \cup log
    /\ ProcessGone

\* The statement succeeded: the thread goes on.
Proceeds(l, rec, fds) ==
    /\ lis' = [lis EXCEPT ![l] = rec]
    /\ openfds' = fds
    /\ UNCHANGED <<proc, stderr, conn, nconn>>

\* new HttpServer(...) in the thread of l.
Construct(l) ==
    /\ Running
    /\ lis[l].pc = "ctor"
    /\ LET a   == CtorArgs(l)
           r   == HttpServerCtor(a.cert_file, a.key_file, env)
           rec == [lis[l] EXCEPT !.use_ssl = r.use_ssl, !.ctx = r.ctx,
                                 !.cert_file = a.cert_file, !.key_file = a.key_file,
                                 !.address = a.address, !.port = a.port]
       IN  IF r.what # ""
           THEN Throws(l, rec, r.what, {})
           ELSE Proceeds(l, [rec EXCEPT !.pc = "getaddrinfo"], openfds)
    /\ UNCHANGED <<mainpc, env, cli>>

(***************************************************************************)
(* run(): startup.                                                         *)
(***************************************************************************)
\* getaddrinfo(address_, port_, &hints, &res); use_ipv6_ = (family is v6).
GetAddrInfo(l) ==
    /\ Running
    /\ lis[l].pc = "getaddrinfo"
    /\ \E ok \in BOOLEAN :
          IF ~ok
          THEN Throws(l, Called(lis[l], "getaddrinfo", FALSE),
                      "Failed to get address information", {})
          ELSE Proceeds(l, [Called(lis[l], "getaddrinfo", TRUE)
                               EXCEPT !.pc = "socket", !.res = TRUE,
                                      !.use_ipv6 = env.v6], openfds)
    /\ UNCHANGED <<mainpc, env, cli>>

\* create_socket that makes an AF_INET socket whatever use_ipv6 says.
CreateSocket_AlwaysV4(l) ==
    /\ Running
    /\ lis[l].pc = "socket"
    /\ \E ok \in BOOLEAN :
          IF ~ok
          THEN Throws(l, Called(lis[l], "socket", FALSE),
                      "Failed to create socket", {"socket"})
          ELSE Proceeds(l, [Called(lis[l], "socket", TRUE)
                               EXCEPT !.pc = "setsockopt",
                                      !.family = "AF_INET",
                                      !.server_fd = LowestFree(openfds)],
                        openfds \cup {LowestFree(openfds)})
    /\ UNCHANGED <<mainpc, env, cli>>

\* server_fd_ = create_socket(address_, port_, use_ipv6_):
\* socket(use_ipv6 ? AF_INET6 : AF_INET, SOCK_STREAM, 0).
CreateSocket(l) ==
    /\ Running
    /\ lis[l].pc = "socket"
    /\ \E ok \in BOOLEAN :
          IF ~ok
          THEN Throws(l, Called(lis[l], "socket", FALSE),
                      "Failed to create socket", {"socket"})
          ELSE Proceeds(l, [Called(lis[l], "socket", TRUE)
                               EXCEPT !.pc = "setsockopt",
                                      !.family = IF lis[l].use_ipv6 THEN "AF_INET6"
                                                 ELSE "AF_INET",
                                      !.server_fd = LowestFree(openfds)],
                        openfds \cup {LowestFree(openfds)})
    /\ UNCHANGED <<mainpc, env, cli>>

\* set_socket_options(server_fd_).
SetSocketOptions(l) ==
    /\ Running
    /\ lis[l].pc = "setsockopt"
    /\ \E ok \in BOOLEAN :
          IF ~ok
          THEN Throws(l, Called(lis[l], "setsockopt", FALSE),
                      "Failed to set socket options", {"setsockopt"})
          ELSE Proceeds(l, [Called(lis[l], "setsockopt", TRUE)
                               EXCEPT !.pc = "bind"], openfds)
    /\ UNCHANGED <<mainpc, env, cli>>

\* bind_socket(server_fd_, res->ai_addr, res->ai_addrlen); freeaddrinfo(res).
BindSocket(l) ==
    /\ Running
    /\ lis[l].pc = "bind"
    /\ \E ok \in BOOLEAN :
          IF ~ok
          THEN Throws(l, Called(lis[l], "bind", FALSE),
                      "Failed to bind socket", {"bind"})
          ELSE Proceeds(l, [Called(lis[l], "bind", TRUE)
                               EXCEPT !.pc = "listen", !.res = FALSE,
                                      !.bound = FirstResultFamily], openfds)
    /\ UNCHANGED <<mainpc, env, cli>>

\* listen_on_socket(server_fd_) with the result of listen() not looked at:
\* the loop is entered whether or not the socket listens.
ListenOnSocket_Unchecked(l) ==
    /\ Running
    /\ lis[l].pc = "listen"
    /\ \E ok \in BOOLEAN :
          Proceeds(l, [Called(lis[l], "listen", ok) EXCEPT !.pc = "accept"], openfds)
    /\ UNCHANGED <<mainpc, env, cli>>

\* listen_on_socket(server_fd_).
ListenOnSocket(l) ==
    /\ Running
    /\ lis[l].pc = "listen"
    /\ \E ok \in BOOLEAN :
          IF ~ok
          THEN Throws(l, Called(lis[l], "listen", FALSE),
                      "Failed to listen on socket", {"listen"})
          ELSE Proceeds(l, [Called(lis[l], "listen", TRUE)
                               EXCEPT !.pc = "accept"], openfds)
    /\ UNCHANGED <<mainpc, env, cli>>

(***************************************************************************)
(* run(): the accept loop.                                                 *)
(***************************************************************************)
\* accept() returned -1, treated as fatal: perror("accept"), then throw.
AcceptFail_Fatal(l) ==
    /\ Running
    /\ lis[l].pc = "accept"
    /\ Throws(l, lis[l], "Failed to accept", {"accept"})
    /\ UNCHANGED <<mainpc, env, cli>>

\* accept() returned -1, with break in place of continue and the listening
\* socket closed behind the loop: run() returns.
AcceptFail_Break(l) ==
    /\ Running
    /\ lis[l].pc = "accept"
    /\ stderr' = stderr \cup {"accept"}
    /\ lis' = [lis EXCEPT ![l].pc = "returned"]
    /\ openfds' = openfds \ {lis[l].server_fd}
    /\ UNCHANGED <<proc, mainpc, conn, nconn, env, cli>>

\* accept() returned -1: perror("accept"); continue.
AcceptFail(l) ==
    /\ Running
    /\ lis[l].pc = "accept"
    /\ stderr' = stderr \cup {"accept"}
    /\ UNCHANGED <<proc, mainpc, lis, conn, nconn, openfds, env, cli>>

\* The sessions SSL_new made and SSL_free has not freed, by their addresses.
LiveSessions ==
    {conn[c].sslp : c \in {d \in Conns : conn[d].ssl \in {"new", "established", "shutdown"}}}

\* The address SSL_new returns: the allocator gives the lowest free one, so
\* the address of a freed session is the first to be handed out again.
NewSession ==
    CHOOSE n \in 1..(Cardinality(LiveSessions) + 1) :
        /\ n \notin LiveSessions
        /\ \A m \in 1..(n - 1) : m \in LiveSessions

\* The loop with join() in place of detach(): it is back at accept() only
\* when the thread it made last has ended.
AcceptOk_Joined(l) ==
    /\ Running
    /\ lis[l].pc = "accept"
    /\ nconn < MaxConn
    /\ \A d \in 1..nconn : conn[d].threads > 0 => conn[d].pc = "done"
    /\ LET c  == nconn + 1
           fd == LowestFree(openfds)
       IN  /\ openfds' = openfds \cup {fd}
           /\ nconn' = c
           /\ IF lis[l].use_ssl
              THEN /\ conn' = [conn EXCEPT ![c] = [NoConn EXCEPT
                                   !.lis = l, !.fd = fd, !.open = TRUE,
                                   !.ssl = "new", !.sslp = NewSession,
                                   !.hs = "pending", !.pc = "handshake"]]
                   /\ lis' = [lis EXCEPT ![l].pc = "handshake", ![l].cur = c]
              ELSE /\ conn' = [conn EXCEPT ![c] = [NoConn EXCEPT
                                   !.lis = l, !.fd = fd, !.open = TRUE,
                                   !.task = TRUE, !.threads = 1,
                                   !.pc = "read"]]
                   /\ lis' = lis
    /\ UNCHANGED <<proc, mainpc, stderr, env, cli>>

\* accept() returned a descriptor.  On a plaintext listener the handler
\* thread is detached at once; on a TLS listener the loop makes the session
\* (SSL_new, SSL_set_fd) and enters SSL_accept itself.
AcceptOk(l) ==
    /\ Running
    /\ lis[l].pc = "accept"
    /\ nconn < MaxConn
    /\ LET c  == nconn + 1
           fd == LowestFree(openfds)
       IN  /\ openfds' = openfds \cup {fd}
           /\ nconn' = c
           /\ IF lis[l].use_ssl
              THEN /\ conn' = [conn EXCEPT ![c] = [NoConn EXCEPT
                                   !.lis = l, !.fd = fd, !.open = TRUE,
                                   !.ssl = "new", !.sslp = NewSession,
                                   !.hs = "pending", !.pc = "handshake"]]
                   /\ lis' = [lis EXCEPT ![l].pc = "handshake", ![l].cur = c]
              ELSE /\ conn' = [conn EXCEPT ![c] = [NoConn EXCEPT
                                   !.lis = l, !.fd = fd, !.open = TRUE,
                                   !.task = TRUE, !.threads = 1,
                                   !.pc = "read"]]
                   /\ lis' = lis
    /\ UNCHANGED <<proc, mainpc, stderr, env, cli>>

\* SSL_accept(ssl) > 0, with the statement that makes and detaches the
\* thread written twice: two lambdas capture the session.
HandshakeOk_TwoThreads(l) ==
    /\ Running
    /\ lis[l].pc = "handshake"
    /\ conn' = [conn EXCEPT ![lis[l].cur].ssl = "established",
                            ![lis[l].cur].hs = "ok",
                            ![lis[l].cur].task = TRUE,
                            ![lis[l].cur].threads = 2,
                            ![lis[l].cur].pc = "read"]
    /\ lis' = [lis EXCEPT ![l].pc = "accept", ![l].cur = 0]
    /\ UNCHANGED <<proc, mainpc, nconn, openfds, stderr, env, cli>>

\* SSL_accept(ssl) > 0: the lambda running handle_request_ssl is detached.
HandshakeOk(l) ==
    /\ Running
    /\ lis[l].pc = "handshake"
    /\ conn' = [conn EXCEPT ![lis[l].cur].ssl = "established",
                            ![lis[l].cur].hs = "ok",
                            ![lis[l].cur].task = TRUE,
                            ![lis[l].cur].threads = 1,
                            ![lis[l].cur].pc = "read"]
    /\ lis' = [lis EXCEPT ![l].pc = "accept", ![l].cur = 0]
    /\ UNCHANGED <<proc, mainpc, nconn, openfds, stderr, env, cli>>

\* SSL_accept(ssl) <= 0, with the close(client_fd) left out.
HandshakeFail_NoClose(l) ==
    /\ Running
    /\ lis[l].pc = "handshake"
    /\ conn' = [conn EXCEPT ![lis[l].cur].ssl = "freed",
                            ![lis[l].cur].hs = "failed",
                            ![lis[l].cur].pc = "abandoned"]
    /\ lis' = [lis EXCEPT ![l].pc = "accept", ![l].cur = 0]
    /\ UNCHANGED <<proc, mainpc, nconn, openfds, stderr, env, cli>>

\* SSL_accept(ssl) <= 0: SSL_free(ssl); close(client_fd); continue.
HandshakeFail(l) ==
    /\ Running
    /\ lis[l].pc = "handshake"
    /\ conn' = [conn EXCEPT ![lis[l].cur].ssl = "freed",
                            ![lis[l].cur].hs = "failed",
                            ![lis[l].cur].open = FALSE,
                            ![lis[l].cur].pc = "abandoned"]
    /\ openfds' = openfds \ {conn[lis[l].cur].fd}
    /\ lis' = [lis EXCEPT ![l].pc = "accept", ![l].cur = 0]
    /\ UNCHANGED <<proc, mainpc, nconn, stderr, env, cli>>

(***************************************************************************)
(* handle_request: the plaintext handler, one detached thread per          *)
(* connection.                                                             *)
(***************************************************************************)
Plain(c) == conn[c].lis \in Listeners /\ ~lis[conn[c].lis].use_ssl
Tls(c)   == conn[c].lis \in Listeners /\ lis[conn[c].lis].use_ssl

\* The connection r after its thread made one more call on it: events
\* holds, oldest first, what the handler and the lambda did with it.
Did(r, event) == [r EXCEPT !.events = Append(@, event)]

\* The fields the single read leaves: n bytes of the wire w in the buffer.
AfterRead(r, w, n) ==
    [Did(r, "read") EXCEPT !.wire = w, !.didread = TRUE, !.valread = n,
                           !.buffer = FillBuffer(w, n)]

\* handle_request without the test of valread: after a failed read, which
\* leaves the buffer as it was, the handler goes on to compose and write.
HandleRequestRead_NoErrorCheck(c) ==
    /\ Running
    /\ Plain(c)
    /\ conn[c].pc = "read"
    /\ \/ /\ conn' = [conn EXCEPT ![c] = [Did(conn[c], "read") EXCEPT
                          !.didread = TRUE, !.valread = -1, !.pc = "compose"]]
          /\ stderr' = stderr
       \/ /\ \E w \in ClientWires :
                conn' = [conn EXCEPT ![c] =
                            [AfterRead(conn[c], w, Min(Len(w), BufSize))
                                EXCEPT !.pc = "compose"]]
          /\ stderr' = stderr
    /\ UNCHANGED <<proc, mainpc, lis, nconn, openfds, env, cli>>

\* int valread = read(client_fd, buffer, 1024);
\* if (valread == -1) { perror("read"); return; }
HandleRequestRead(c) ==
    /\ Running
    /\ Plain(c)
    /\ conn[c].pc = "read"
    /\ \/ /\ conn' = [conn EXCEPT ![c] = [Did(conn[c], "read") EXCEPT
                          !.didread = TRUE, !.valread = -1, !.pc = "done"]]
          /\ stderr' = stderr \cup {"read"}
       \/ /\ \E w \in ClientWires :
                conn' = [conn EXCEPT ![c] =
                            [AfterRead(conn[c], w, Min(Len(w), BufSize))
                                EXCEPT !.pc = "compose"]]
          /\ stderr' = stderr
    /\ UNCHANGED <<proc, mainpc, lis, nconn, openfds, env, cli>>

\* current_time = get_formatted_time(); response = ...; response += buffer;
HandleRequestCompose(c) ==
    /\ Running
    /\ Plain(c)
    /\ conn[c].pc = "compose"
    /\ \E t \in ClockValues, spill \in Spills :
          conn' = [conn EXCEPT ![c] = [Did(conn[c], "compose") EXCEPT
                      !.now = t,
                      !.response = ComposeResponse(t, conn[c].buffer, spill),
                      !.pc = "write"]]
    /\ UNCHANGED <<proc, mainpc, lis, nconn, openfds, stderr, env, cli>>

\* The byte counts a write may accept: all, a part, or none (-1); the runs
\* that explore the interleavings of the threads leave the last one out.
WriteCounts(response) ==
    {Len(response), Len(response) \div 2}
        \cup (IF env.explore \in {"data", "pair"} THEN {0} ELSE {})

\* handle_request with the write in a loop that goes round again as long as
\* the response has not been sent whole.
HandleRequestWrite_Loop(c) ==
    /\ Running
    /\ Plain(c)
    /\ conn[c].pc = "write"
    /\ \E n \in WriteCounts(conn[c].response) :
          conn' = [conn EXCEPT ![c] =
                      IF n = Len(conn[c].response)
                      THEN [Did(conn[c], "write") EXCEPT
                               !.wrote = TRUE, !.written = n, !.pc = "close"]
                      ELSE [conn[c] EXCEPT !.wrote = TRUE, !.written = n]]
    /\ UNCHANGED <<proc, mainpc, lis, nconn, openfds, stderr, env, cli>>

\* write(client_fd, response.c_str(), response.size()); result not looked at.
HandleRequestWrite(c) ==
    /\ Running
    /\ Plain(c)
    /\ conn[c].pc = "write"
    /\ \E n \in WriteCounts(conn[c].response) :
          conn' = [conn EXCEPT ![c] = [Did(conn[c], "write") EXCEPT
                      !.wrote = TRUE, !.written = n, !.pc = "close"]]
    /\ UNCHANGED <<proc, mainpc, lis, nconn, openfds, stderr, env, cli>>

\* handle_request closing the listening socket next to its own: close() of
\* server_fd_, which is then set to -1.
HandleRequestClose_AlsoListener(c) ==
    /\ Running
    /\ Plain(c)
    /\ conn[c].pc = "close"
    /\ conn' = [conn EXCEPT ![c] = [Did(conn[c], "close") EXCEPT
                    !.open = FALSE, !.pc = "done"]]
    /\ openfds' = openfds \ {conn[c].fd, lis[conn[c].lis].server_fd}
    /\ lis' = [lis EXCEPT ![conn[c].lis].server_fd = -1]
    /\ UNCHANGED <<proc, mainpc, nconn, stderr, env, cli>>

\* close(client_fd); the thread ends.
HandleRequestClose(c) ==
    /\ Running
    /\ Plain(c)
    /\ conn[c].pc = "close"
    /\ conn' = [conn EXCEPT ![c] = [Did(conn[c], "close") EXCEPT
                    !.open = FALSE, !.pc = "done"]]
    /\ openfds' = openfds \ {conn[c].fd}
    /\ UNCHANGED <<proc, mainpc, lis, nconn, stderr, env, cli>>

(***************************************************************************)
(* The lambda of the TLS listener: handle_request_ssl(ssl);                *)
(* SSL_shutdown(ssl); SSL_free(ssl).                                       *)
(***************************************************************************)
\* int valread = SSL_read(ssl, buffer, 1024); if (valread <= 0) return;
HandleRequestSslRead(c) ==
    /\ Running
    /\ Tls(c)
    /\ conn[c].pc = "read"
    /\ \/ \E n \in {-1, 0} :
             conn' = [conn EXCEPT ![c] = [Did(conn[c], "read") EXCEPT
                         !.didread = TRUE, !.valread = n, !.pc = "lambda_shutdown"]]
       \/ \E w \in ClientWires \ {EmptyWire} :
             conn' = [conn EXCEPT ![c] =
                         [AfterRead(conn[c], w, Min(Len(w), BufSize))
                             EXCEPT !.pc = "compose"]]
    /\ UNCHANGED <<proc, mainpc, lis, nconn, openfds, stderr, env, cli>>

\* What handle_request_ssl composes: the same three statements.
ComposeResponseSsl(t, buffer, spill) ==
    ResponseHead \o get_formatted_time(t) \o ReceivedMarker \o CString(buffer, spill)

HandleRequestSslCompose(c) ==
    /\ Running
    /\ Tls(c)
    /\ conn[c].pc = "compose"
    /\ \E t \in ClockValues, spill \in Spills :
          conn' = [conn EXCEPT ![c] = [Did(conn[c], "compose") EXCEPT
                      !.now = t,
                      !.response = ComposeResponseSsl(t, conn[c].buffer, spill),
                      !.pc = "write"]]
    /\ UNCHANGED <<proc, mainpc, lis, nconn, openfds, stderr, env, cli>>

\* bytes_written = SSL_write(ssl, ...); if (bytes_written <= 0) std::cerr << ...
\* SSL_write sends the whole response or fails.
HandleRequestSslWrite(c) ==
    /\ Running
    /\ Tls(c)
    /\ conn[c].pc = "write"
    /\ \E ok \in BOOLEAN :
          /\ conn' = [conn EXCEPT ![c] = [Did(conn[c], "write") EXCEPT
                         !.wrote = TRUE,
                         !.written = IF ok THEN Len(conn[c].response) ELSE 0,
                         !.pc = "shutdown"]]
          /\ stderr' = IF ok THEN stderr
                       ELSE stderr \cup {"Failed to send response to client"}
    /\ UNCHANGED <<proc, mainpc, lis, nconn, openfds, env, cli>>

\* SSL_shutdown(ssl) at the end of handle_request_ssl.
HandleRequestSslShutdown(c) ==
    /\ Running
    /\ Tls(c)
    /\ conn[c].pc = "shutdown"
    /\ conn' = [conn EXCEPT ![c] = [Did(conn[c], "shutdown") EXCEPT
                    !.ssl = "shutdown", !.pc = "close"]]
    /\ UNCHANGED <<proc, mainpc, lis, nconn, openfds, stderr, env, cli>>

\* handle_request_ssl freeing the session itself after the close, before
\* it returns to the lambda that shuts it down and frees it.
HandleRequestSslClose_AlsoFree(c) ==
    /\ Running
    /\ Tls(c)
    /\ conn[c].pc = "close"
    /\ conn' = [conn EXCEPT ![c] = [Did(Did(conn[c], "close"), "free") EXCEPT
                    !.open = FALSE, !.ssl = "freed", !.pc = "lambda_shutdown"]]
    /\ openfds' = openfds \ {conn[c].fd}
    /\ UNCHANGED <<proc, mainpc, lis, nconn, stderr, env, cli>>

\* close(SSL_get_fd(ssl)); handle_request_ssl returns to the lambda.
HandleRequestSslClose(c) ==
    /\ Running
    /\ Tls(c)
    /\ conn[c].pc = "close"
    /\ conn' = [conn EXCEPT ![c] = [Did(conn[c], "close") EXCEPT
                    !.open = FALSE, !.pc = "lambda_shutdown"]]
    /\ openfds' = openfds \ {conn[c].fd}
    /\ UNCHANGED <<proc, mainpc, lis, nconn, stderr, env, cli>>

\* SSL_shutdown(ssl) in the lambda, after handle_request_ssl returned.
LambdaShutdown(c) ==
    /\ Running
    /\ Tls(c)
    /\ conn[c].pc = "lambda_shutdown"
    /\ conn' = [conn EXCEPT ![c] = [Did(conn[c], "shutdown") EXCEPT
                    !.ssl = "shutdown", !.pc = "lambda_free"]]
    /\ UNCHANGED <<proc, mainpc, lis, nconn, openfds, stderr, env, cli>>

\* SSL_free(ssl) in the lambda; the thread ends.  The session was given the
\* descriptor by SSL_set_fd, which does not make the session its owner:
\* SSL_free closes nothing.
LambdaFree(c) ==
    /\ Running
    /\ Tls(c)
    /\ conn[c].pc = "lambda_free"
    /\ conn' = [conn EXCEPT ![c] = [Did(conn[c], "free") EXCEPT
                    !.ssl = "freed", !.pc = "done"]]
    /\ UNCHANGED <<proc, mainpc, lis, nconn, openfds, stderr, env, cli>>

(***************************************************************************)
(* SIGPIPE.  The program installs no handler for it, does not ignore it    *)
(* and sends with write / SSL_write (no MSG_NOSIGNAL): a thread that       *)
(* writes to a socket whose peer has closed and reset the connection gets  *)
(* SIGPIPE, whose default action ends the process.                         *)
(***************************************************************************)
\* The thread working on c is in a call that writes to its socket.
WritesToSocket(c) ==
    /\ conn[c].open
    /\ \/ Plain(c) /\ conn[c].pc = "write"
       \/ Tls(c) /\ conn[c].pc \in {"handshake", "write", "shutdown", "lambda_shutdown"}

Sigpipe(c) ==
    /\ Running
    /\ WritesToSocket(c)
    /\ proc' = "sigpipe"
    /\ ProcessGone
    /\ UNCHANGED <<mainpc, lis, stderr, env, cli>>

(***************************************************************************)
(* The system.                                                             *)
(***************************************************************************)
Next ==
    \/ MainValidate
    \/ MainSpawn
    \/ MainCatch
    \/ \E l \in Listeners : Construct(l)
    \/ \E l \in Listeners : GetAddrInfo(l)
    \/ \E l \in Listeners : CreateSocket(l)
    \/ \E l \in Listeners : SetSocketOptions(l)
    \/ \E l \in Listeners : BindSocket(l)
    \/ \E l \in Listeners : ListenOnSocket(l)
    \/ \E l \in Listeners : AcceptFail(l)
    \/ \E l \in Listeners : AcceptOk(l)
    \/ \E l \in Listeners : HandshakeOk(l)
    \/ \E l \in Listeners : HandshakeFail(l)
    \/ \E c \in Conns : HandleRequestRead(c)
    \/ \E c \in Conns : HandleRequestCompose(c)
    \/ \E c \in Conns : HandleRequestWrite(c)
    \/ \E c \in Conns : HandleRequestClose(c)
    \/ \E c \in Conns : HandleRequestSslRead(c)
    \/ \E c \in Conns : HandleRequestSslCompose(c)
    \/ \E c \in Conns : HandleRequestSslWrite(c)
    \/ \E c \in Conns : HandleRequestSslShutdown(c)
    \/ \E c \in Conns : HandleRequestSslClose(c)
    \/ \E c \in Conns : LambdaShutdown(c)
    \/ \E c \in Conns : LambdaFree(c)
    \/ \E c \in Conns : Sigpipe(c)

Spec == Init /\ [][Next]_vars

(***************************************************************************)
(* main and the startup of the listeners over every command line and       *)
(* every environment, up to the first accept().                            *)
(***************************************************************************)
InitMain ==
    /\ env \in {e \in [recorder_enabled : BOOLEAN, cert_file : CertFileOptions,
                        cert_key : CertKeyOptions, address : AddressOptions,
                        port : PortOptions,
                        cert : BOOLEAN, key : BOOLEAN, match : BOOLEAN,
                        v6 : BOOLEAN, explore : {"threads"}] :
                    e.match => (e.cert /\ e.key)}
    /\ proc = "running"
    /\ mainpc = "validate"
    /\ lis = [l \in Listeners |-> NoListener]
    /\ conn = [c \in Conns |-> NoConn]
    /\ nconn = 0
    /\ openfds = {}
    /\ stderr = {}
    /\ cli = NoCli

NextMain ==
    \/ MainValidate
    \/ MainSpawn
    \/ MainCatch
    \/ \E l \in Listeners : Construct(l)
    \/ \E l \in Listeners : GetAddrInfo(l)
    \/ \E l \in Listeners : CreateSocket(l)
    \/ \E l \in Listeners : SetSocketOptions(l)
    \/ \E l \in Listeners : BindSocket(l)
    \/ \E l \in Listeners : ListenOnSocket(l)

SpecMain == InitMain /\ [][NextMain]_vars

(***************************************************************************)
(* The class by itself: listeners constructed by a caller that passes any  *)
(* certificate path and any key path, given or not, then started, up to    *)
(* the first call of the handler of each connection.                       *)
(***************************************************************************)
\* new HttpServer(address, port, cert_file, key_file) with any two paths.
ConstructAny(l) ==
    /\ Running
    /\ lis[l].pc = "ctor"
    /\ \E cert_file \in CertFileOptions, key_file \in CertKeyOptions :
          LET r   == HttpServerCtor(cert_file, key_file, env)
              rec == [lis[l] EXCEPT !.use_ssl = r.use_ssl, !.ctx = r.ctx,
                                    !.cert_file = cert_file, !.key_file = key_file,
                                    !.address = CtorArgs(l).address,
                                    !.port = CtorArgs(l).port]
          IN  IF r.what # ""
              THEN Throws(l, rec, r.what, {})
              ELSE Proceeds(l, [rec EXCEPT !.pc = "getaddrinfo"], openfds)
    /\ UNCHANGED <<mainpc, env, cli>>

\* Both threads made, neither listener constructed yet.
InitCtor ==
    /\ env \in {e \in [recorder_enabled : {TRUE}, cert_file : {""},
                        cert_key : {""}, address : {""}, port : {""},
                        cert : BOOLEAN, key : BOOLEAN, match : BOOLEAN,
                        v6 : {TRUE}, explore : {"threads"}] :
                    e.match => (e.cert /\ e.key)}
    /\ proc = "running"
    /\ mainpc = "join"
    /\ lis = [l \in Listeners |-> [NoListener EXCEPT !.pc = "ctor"]]
    /\ conn = [c \in Conns |-> NoConn]
    /\ nconn = 0
    /\ openfds = {}
    /\ stderr = {}
    /\ cli = NoCli

NextCtor ==
    \/ \E l \in Listeners : ConstructAny(l)
    \/ \E l \in Listeners : GetAddrInfo(l)
    \/ \E l \in Listeners : CreateSocket(l)
    \/ \E l \in Listeners : SetSocketOptions(l)
    \/ \E l \in Listeners : BindSocket(l)
    \/ \E l \in Listeners : ListenOnSocket(l)
    \/ \E l \in Listeners : AcceptOk(l)
    \/ \E l \in Listeners : HandshakeOk(l)
    \/ \E l \in Listeners : HandshakeFail(l)
    \/ \E c \in Conns : HandleRequestRead(c)
    \/ \E c \in Conns : HandleRequestSslRead(c)

SpecCtor == InitCtor /\ [][NextCtor]_vars

(***************************************************************************)
(* The earlier version of the class, which has a constructor of its own    *)
(* for (address, port): the plaintext listener is built with it, the TLS   *)
(* listener with the constructor that is given the paths.                  *)
(***************************************************************************)
\* HttpServer(address, port) : address_(address), port_(port),
\* use_ipv6_(false) {}.  use_ssl_, ctx_ and server_fd_ get no initialiser
\* and the class has no default member initialisers: in an object made by
\* new they hold whatever the memory held, and run() reads use_ssl_ and
\* ctx_ as they are.
ConstructTwoArg(l) ==
    /\ Running
    /\ l = "http"
    /\ lis[l].pc = "ctor"
    /\ \E use_ssl \in BOOLEAN, ctx \in {"null", "indeterminate"} :
          Proceeds(l, [lis[l] EXCEPT !.use_ssl = use_ssl, !.ctx = ctx,
                                    !.address = "::", !.port = "80",
                                    !.pc = "getaddrinfo"], openfds)
    /\ UNCHANGED <<mainpc, env, cli>>

NextTwoArg ==
    \/ ConstructTwoArg("http")
    \/ Construct("https")
    \/ \E l \in Listeners : GetAddrInfo(l)
    \/ \E l \in Listeners : CreateSocket(l)
    \/ \E l \in Listeners : SetSocketOptions(l)
    \/ \E l \in Listeners : BindSocket(l)
    \/ \E l \in Listeners : ListenOnSocket(l)
    \/ \E l \in Listeners : AcceptOk(l)
    \/ \E l \in Listeners : HandshakeOk(l)
    \/ \E l \in Listeners : HandshakeFail(l)
    \/ \E c \in Conns : HandleRequestRead(c)
    \/ \E c \in Conns : HandleRequestSslRead(c)

SpecTwoArg == InitCtor /\ [][NextTwoArg]_vars

(***************************************************************************)
(* parse_options by itself, over every command line of at most MaxArgs     *)
(* options: the caller passes a struct Options and a struct Commands it    *)
(* has just defined.                                                       *)
(***************************************************************************)
InitParse ==
    /\ cli \in [pc : {"call"}, args : SeqUpTo(OptionTokens, MaxArgs),
                 command : CommandWords, options : {DefaultOptions},
                 commands : {DefaultCommands}, ret : {DefaultOptions}]
    /\ env \in {e \in Environments : e.recorder_enabled /\ e.match
                                     /\ e.cert_file # "" /\ e.cert_key # ""
                                     /\ e.explore = "threads"}
    /\ proc = "running"
    /\ mainpc = "validate"
    /\ lis = [l \in Listeners |-> NoListener]
    /\ conn = [c \in Conns |-> NoConn]
    /\ nconn = 0
    /\ openfds = {}
    /\ stderr = {}

\* The call and its return.
ParseOptions ==
    /\ cli.pc = "call"
    /\ LET r == parse_options(cli.args, cli.command, cli.options, cli.commands)
       IN  cli' = [cli EXCEPT !.pc = "returned", !.ret = r.ret,
                              !.options = r.options, !.commands = r.commands]
    /\ UNCHANGED <<proc, mainpc, lis, conn, nconn, openfds, stderr, env>>

NextParse == ParseOptions

SpecParse == InitParse /\ [][NextParse]_vars

(***************************************************************************)
(* The handlers over every wire: both listeners are in their accept loops  *)
(* (the state run() reaches when every startup step succeeds), and one     *)
(* connection is accepted and handled.                                     *)
(***************************************************************************)
\* Both listeners in their accept loops, no connection accepted yet.
Serving ==
    /\ proc = "running"
    /\ mainpc = "join"
    /\ lis = [l \in Listeners |->
                [NoListener EXCEPT
                    !.pc = "accept",
                    !.use_ssl = HttpServerCtor(CtorArgs(l).cert_file,
                                               CtorArgs(l).key_file, env).use_ssl,
                    !.ctx = HttpServerCtor(CtorArgs(l).cert_file,
                                           CtorArgs(l).key_file, env).ctx,
                    !.use_ipv6 = env.v6,
                    !.family = FirstResultFamily,
                    !.bound = FirstResultFamily,
                    !.cert_file = CtorArgs(l).cert_file,
                    !.key_file = CtorArgs(l).key_file,
                    !.address = CtorArgs(l).address,
                    !.port = CtorArgs(l).port,
                    !.trail = [i \in 1..Len(StartupOrder) |->
                                  [call |-> StartupOrder[i], ok |-> TRUE]],
                    !.server_fd = IF l = "http" THEN FirstFd ELSE FirstFd + 1]]
    /\ conn = [c \in Conns |-> NoConn]
    /\ nconn = 0
    /\ openfds = {FirstFd, FirstFd + 1}
    /\ stderr = {}
    /\ cli = NoCli

InitEcho ==
    /\ env \in [recorder_enabled : {TRUE}, cert_file : CertFileOptions \ {""},
                 cert_key : CertKeyOptions \ {""}, address : {""}, port : {""},
                 cert : {TRUE}, key : {TRUE}, match : {TRUE}, v6 : BOOLEAN,
                 explore : {"data"}]
    /\ Serving

\* The first accept of the run.
AcceptFirst(l) == nconn = 0 /\ AcceptOk(l)

NextEcho ==
    \/ \E l \in Listeners : AcceptFirst(l)
    \/ \E l \in Listeners : HandshakeOk(l)
    \/ \E c \in Conns : HandleRequestRead(c)
    \/ \E c \in Conns : HandleRequestCompose(c)
    \/ \E c \in Conns : HandleRequestWrite(c)
    \/ \E c \in Conns : HandleRequestClose(c)
    \/ \E c \in Conns : HandleRequestSslRead(c)
    \/ \E c \in Conns : HandleRequestSslCompose(c)
    \/ \E c \in Conns : HandleRequestSslWrite(c)
    \/ \E c \in Conns : HandleRequestSslShutdown(c)
    \/ \E c \in Conns : HandleRequestSslClose(c)
    \/ \E c \in Conns : LambdaShutdown(c)
    \/ \E c \in Conns : LambdaFree(c)

SpecEcho == InitEcho /\ [][NextEcho]_vars

\* A step of the thread made for c.
HandlerStep(c) ==
    \/ HandleRequestRead(c)
    \/ HandleRequestCompose(c)
    \/ HandleRequestWrite(c)
    \/ HandleRequestClose(c)
    \/ HandleRequestSslRead(c)
    \/ HandleRequestSslCompose(c)
    \/ HandleRequestSslWrite(c)
    \/ HandleRequestSslShutdown(c)
    \/ HandleRequestSslClose(c)
    \/ LambdaShutdown(c)
    \/ LambdaFree(c)

\* The same runs when every blocking call of every handler thread returns
\* and every thread is scheduled: a thread that can take a step takes one.
SpecEchoFair == SpecEcho /\ \A c \in Conns : WF_vars(HandlerStep(c))

(***************************************************************************)
(* Two handlers at the same time: both listeners are in their accept       *)
(* loops, and up to MaxConn connections are accepted and handled, each     *)
(* client sending a short request or one that fills the buffer.            *)
(***************************************************************************)
InitPair ==
    /\ env \in [recorder_enabled : {TRUE}, cert_file : CertFileOptions \ {""},
                 cert_key : CertKeyOptions \ {""}, address : {""}, port : {""},
                 cert : {TRUE}, key : {TRUE}, match : {TRUE}, v6 : {TRUE},
                 explore : {"pair"}]
    /\ Serving

NextPair ==
    \/ \E l \in Listeners : AcceptOk(l)
    \/ \E l \in Listeners : HandshakeOk(l)
    \/ \E c \in Conns : HandleRequestRead(c)
    \/ \E c \in Conns : HandleRequestCompose(c)
    \/ \E c \in Conns : HandleRequestWrite(c)
    \/ \E c \in Conns : HandleRequestClose(c)
    \/ \E c \in Conns : HandleRequestSslRead(c)
    \/ \E c \in Conns : HandleRequestSslCompose(c)
    \/ \E c \in Conns : HandleRequestSslWrite(c)
    \/ \E c \in Conns : HandleRequestSslShutdown(c)
    \/ \E c \in Conns : HandleRequestSslClose(c)
    \/ \E c \in Conns : LambdaShutdown(c)
    \/ \E c \in Conns : LambdaFree(c)

SpecPair == InitPair /\ [][NextPair]_vars

(***************************************************************************)
(* Properties.                                                             *)
(***************************************************************************)
\* The bytes of the response the client of c was sent.
Sent(c) == SubSeq(conn[c].response, 1, conn[c].written)

\* The handling of c has ended: its task returned, or the loop dropped it.
Ended(c) == conn[c].pc \in {"done", "abandoned"}

\* The bytes of a response behind the header, the timestamp and the marker.
PayloadOf(response) ==
    SubSeq(response,
           Len(ResponseHead) + Len(get_formatted_time(0)) + Len(ReceivedMarker) + 1,
           Len(response))

\* C1: every accepted connection has its descriptor closed by the time the
\* unit handling it finishes, on every exit path.
C1_DescriptorClosedWhenHandlingEnds ==
    \A c \in Conns : Ended(c) => ~conn[c].open

\* C2: in both handlers, a read that returns zero or a negative count is
\* followed by no write of a response.
C2_NoResponseAfterEmptyRead ==
    \A c \in Conns : (conn[c].didread /\ conn[c].valread <= 0) => ~conn[c].wrote

\* C3: a listener whose startup fails (an exception in its thread) does not
\* end the process; the other listener goes on.
C3_StartupFailureLeavesProcessRunning ==
    \A l \in Listeners : lis[l].pc = "failed" => proc = "running"

\* C4: an encrypted listener is in its accept loop, or has accepted a
\* connection, only when the certificate loaded, the key loaded and the key
\* matches the certificate.
C4_AcceptOnlyAfterTlsValidated ==
    \A l \in Listeners :
        (lis[l].use_ssl /\ (InLoop(l) \/ \E c \in Conns : conn[c].lis = l))
            => (env.cert /\ env.key /\ env.match)

\* C4 witness: the encrypted listener, its files valid, has accepted a
\* connection.
C4_Witness ==
    /\ lis["https"].use_ssl
    /\ InLoop("https")
    /\ \E c \in Conns : conn[c].lis = "https"

\* C5: on an encrypted listener the handshake of an accepted connection runs
\* inside the spawned task, and the loop is back at accept() meanwhile.
C5_HandshakeInsideSpawnedTask ==
    \A c \in Conns :
        conn[c].hs = "pending" => (conn[c].task /\ lis[conn[c].lis].pc = "accept")

\* C6: for every byte sequence P of length 1..BufSize the read returns, zero
\* bytes included, the payload section of the response is exactly P.
C6_PayloadEchoedVerbatim ==
    \A c \in Conns :
        (conn[c].response # <<>> /\ conn[c].valread >= 1)
            => PayloadOf(conn[c].response) = SubSeq(conn[c].wire, 1, conn[c].valread)

\* C7: when the client sent more than the buffer holds, the payload section
\* of the response is exactly the first BufSize bytes, nothing appended.
C7_LongRequestTruncatedToBuffer ==
    \A c \in Conns :
        (conn[c].response # <<>> /\ Len(conn[c].wire) > BufSize)
            => PayloadOf(conn[c].response) = SubSeq(conn[c].wire, 1, BufSize)

\* C8: once both listeners are in their accept loops, where every step is
\* an accept or the handling of some client's connection, no step ends the
\* process or takes a listener out of its loop.
C8_ClientCannotBringDownListener ==
    [][(Running /\ \A l \in Listeners : InLoop(l))
          => (proc' = "running" /\ \A l \in Listeners : lis'[l].pc \in {"accept", "handshake"})]_vars

\* C9: a failing accept() is logged and nothing else happens: no task, no
\* close, the listener and its listening socket as before, back at accept().
C9_AcceptFailureOnlyLogged ==
    [][("accept" \notin stderr /\ "accept" \in stderr')
          => /\ lis' = lis
             /\ conn' = conn
             /\ nconn' = nconn
             /\ openfds' = openfds
             /\ proc' = "running"]_vars

\* C9 witness: an accept() has failed and a listener is at accept() with its
\* listening socket open.
C9_Witness ==
    /\ "accept" \in stderr
    /\ Running
    /\ \E l \in Listeners : lis[l].pc = "accept" /\ lis[l].server_fd \in openfds

\* C10: a failed handshake abandons exactly its connection: session freed,
\* descriptor closed, no task, every other connection, the TLS context and
\* the listening socket untouched, and the loop back at accept().
C10_FailedHandshakeAbandonsOneConnection ==
    [][\A l \in Listeners :
          (lis[l].pc = "handshake" /\ conn'[lis[l].cur].hs = "failed")
             => LET c == lis[l].cur
                IN  /\ conn'[c].ssl = "freed"
                    /\ ~conn'[c].open
                    /\ ~conn'[c].task
                    /\ openfds' = openfds \ {conn[c].fd}
                    /\ \A d \in Conns \ {c} : conn'[d] = conn[d]
                    /\ lis'[l].ctx = lis[l].ctx
                    /\ lis'[l].server_fd = lis[l].server_fd
                    /\ lis'[l].server_fd \in openfds'
                    /\ lis'[l].pc = "accept"
                    /\ \A k \in Listeners \ {l} : lis'[k] = lis[k]
                    /\ proc' = "running"]_vars

\* C10 witness: a handshake failed and the loop accepted a later connection.
C10_Witness ==
    \E c \in Conns :
        /\ conn[c].hs = "failed"
        /\ nconn > c
        /\ conn[c + 1].lis = conn[c].lis

\* The startup calls the thread of l made, oldest first.
Calls(l) == [i \in 1..Len(lis[l].trail) |-> lis[l].trail[i].call]

\* C11: the startup calls of a listener are a beginning of resolve, socket,
\* address reuse, bind, listen (so in this order, each at most once); a call
\* that failed is the last one made (nothing runs after it, nothing is tried
\* again); and the listener is in its accept loop, or has accepted a
\* connection, only with all five made and listen succeeded.
C11_StartupStepsOnceInOrder ==
    \A l \in Listeners :
        /\ Len(lis[l].trail) <= Len(StartupOrder)
        /\ Calls(l) = SubSeq(StartupOrder, 1, Len(lis[l].trail))
        /\ \A i \in 1..Len(lis[l].trail) :
              ~lis[l].trail[i].ok => (i = Len(lis[l].trail) /\ lis[l].pc = "failed")
        /\ (InLoop(l) \/ \E c \in Conns : conn[c].lis = l)
              => (Calls(l) = StartupOrder /\ lis[l].trail[Len(StartupOrder)].ok)

\* C11 witness: one listener accepted a connection after its five calls
\* while the other is part of the way through its own.
C11_Witness ==
    \E l, k \in Listeners :
        /\ Calls(l) = StartupOrder
        /\ \E c \in Conns : conn[c].lis = l
        /\ Len(lis[k].trail) \in 1..(Len(StartupOrder) - 1)

\* The four events of a handler, in the order of its statements.
HandlerOrder == <<"read", "compose", "write", "close">>
IsHandlerEvent(e) == \E i \in DOMAIN HandlerOrder : HandlerOrder[i] = e

\* The reads, composes, writes and closes of c, oldest first.
HandlerEvents(c) == SelectSeq(conn[c].events, IsHandlerEvent)

\* C12: the reads, composes, writes and closes of one connection are a
\* beginning of read, compose, write, close (so in this order, and one read
\* at most), and a write is made only after the read returned without an
\* error.
C12_ReadComposeWriteCloseInOrder ==
    \A c \in Conns :
        /\ Len(HandlerEvents(c)) <= Len(HandlerOrder)
        /\ HandlerEvents(c) = SubSeq(HandlerOrder, 1, Len(HandlerEvents(c)))
        /\ conn[c].wrote => (conn[c].didread /\ conn[c].valread >= 0)

\* C12 witness: a plaintext and a TLS connection each went through read,
\* compose, write and close.
C12_Witness ==
    \E c, d \in Conns :
        /\ Plain(c) /\ HandlerEvents(c) = HandlerOrder
        /\ Tls(d) /\ HandlerEvents(d) = HandlerOrder

\* The loop handed c over for handling: it is past accept() on a plaintext
\* listener, past a successful SSL_accept on a TLS listener.
HandedOver(c) ==
    conn[c].lis \in Listeners /\ conn[c].hs # "failed" /\ conn[c].pc # "handshake"

\* The thread made for c has not ended.
Live(c) == conn[c].threads > 0 /\ conn[c].pc # "done"

\* C13: a connection handed over has exactly one thread made for it, any
\* other none; two threads that have not ended hold different descriptors
\* (plaintext lambdas capture client_fd) and different sessions (TLS
\* lambdas capture ssl).
C13_OneTaskPerConnection ==
    /\ \A c \in Conns : conn[c].threads = IF HandedOver(c) THEN 1 ELSE 0
    /\ \A c, d \in Conns :
          (c # d /\ Live(c) /\ Live(d))
             => /\ (Plain(c) /\ Plain(d)) => conn[c].fd # conn[d].fd
                /\ (Tls(c) /\ Tls(d)) => conn[c].sslp # conn[d].sslp

\* C13 witness: the threads of two TLS connections run at the same time.
C13_Witness ==
    \E c, d \in Conns :
        /\ c # d /\ Live(c) /\ Live(d)
        /\ Tls(c) /\ Tls(d)
        /\ conn[c].pc = "write" /\ conn[d].pc = "read"

\* The unit working on c (the loop in SSL_accept, or the thread made for c)
\* is in, or is about to make, a call that acts on the descriptor number of
\* c: read, write and close in handle_request; SSL_accept, SSL_read,
\* SSL_write, SSL_shutdown and close in the loop, handle_request_ssl and the
\* lambda, the session doing its input and output on the number SSL_set_fd
\* gave it.
OperatesOnDescriptor(c) ==
    \/ Plain(c) /\ conn[c].pc \in {"read", "write", "close"}
    \/ Tls(c) /\ conn[c].pc \in {"handshake", "read", "write", "shutdown", "close",
                                  "lambda_shutdown"}

\* C14: two units never operate on the same descriptor number, nor on the
\* same session, at the same time.
C14_NoTwoUnitsOnOneDescriptor ==
    \A c, d \in Conns :
        (c # d /\ OperatesOnDescriptor(c) /\ OperatesOnDescriptor(d))
            => /\ conn[c].fd # conn[d].fd
               /\ (Tls(c) /\ Tls(d)) => conn[c].sslp # conn[d].sslp

\* C15: a connection is closed after a write that accepted some bytes
\* without an error only when the whole response has been sent.
C15_PartialWriteCompletedBeforeClose ==
    \A c \in Conns :
        (conn[c].wrote /\ conn[c].written > 0 /\ ~conn[c].open)
            => Sent(c) = conn[c].response

\* s is a beginning of t.
IsPrefix(s, t) == Len(s) <= Len(t) /\ s = SubSeq(t, 1, Len(s))

\* C16: with a second handler of the same listener running, the payload
\* section of a response holds nothing but bytes the handler read on its own
\* connection.
C16_PayloadOnlyFromOwnConnection ==
    \A c, d \in Conns :
        (c # d /\ conn[c].lis = conn[d].lis /\ Live(c) /\ Live(d)
               /\ conn[c].response # <<>>)
            => IsPrefix(PayloadOf(conn[c].response),
                        SubSeq(conn[c].wire, 1, conn[c].valread))

\* The thread of listener l has been made.
Started(l) == lis[l].pc # "unstarted"

\* The constructor of listener l has returned.
Constructed(l) == lis[l].pc \notin {"unstarted", "ctor", "failed"} \/ lis[l].trail # <<>>

\* C17: main waits in join() only with both listener threads made, the
\* thread of "http" serving plaintext and that of "https" TLS, and main has
\* returned only when no listener thread exists.
C17_BothStartedBeforeJoin ==
    /\ mainpc = "join" => \A l \in Listeners : Started(l)
    /\ Constructed("http") => ~lis["http"].use_ssl
    /\ Constructed("https") => lis["https"].use_ssl
    /\ mainpc = "returned" => \A l \in Listeners : ~Started(l)

\* C17 witness: main waits in join() and both listeners, one plaintext and
\* one TLS, are in their accept loops.
C17_Witness ==
    /\ mainpc = "join"
    /\ Running
    /\ InLoop("http") /\ ~lis["http"].use_ssl
    /\ InLoop("https") /\ lis["https"].use_ssl

\* C18: when the startup of a listener has failed, the exception handler of
\* main has printed "Error running server".
C18_StartupFailureReachesMain ==
    \A l \in Listeners : lis[l].pc = "failed" => "Error running server" \in stderr

\* C19: a process that ended for a configuration error, a startup failure
\* or through the exception handler of main has a non-zero exit status.
C19_FatalEndHasNonZeroStatus ==
    proc \in {"exit0", "exit1", "terminate"} => ExitStatus(proc) # 0

\* -c or -k was not given to the recorder.
PathMissing == env.recorder_enabled /\ (env.cert_file = "" \/ env.cert_key = "")

RecorderConfigured ==
    env.recorder_enabled /\ env.cert_file # "" /\ env.cert_key # ""

C22_HandlersComposeSameResponse ==
    \A c, d \in Conns :
        (Plain(c) /\ Tls(d) /\ conn[c].response # <<>> /\ conn[d].response # <<>>
             /\ conn[c].valread = conn[d].valread
             /\ conn[c].buffer = conn[d].buffer
             /\ conn[c].now = conn[d].now)
            => conn[c].response = conn[d].response

\* listen() succeeded for l, at some time of the run.
ReachedAccepting(l) ==
    Calls(l) = StartupOrder /\ lis[l].trail[Len(StartupOrder)].ok

C24_AcceptNeverWaitsForHandlers ==
    \A l \in Listeners :
        (Running /\ ReachedAccepting(l) /\ ~lis[l].use_ssl)
            => /\ lis[l].pc = "accept"
               /\ nconn < MaxConn => ENABLED AcceptOk(l)

\* C24 witness: every connection of the run was accepted by the plaintext
\* listener and all their handlers are blocked in read() at the same time.
C24_Witness ==
    /\ Running
    /\ nconn = MaxConn
    /\ \A c \in Conns : Plain(c) /\ Live(c) /\ conn[c].pc = "read"

\* The members of listener l that its handlers share with its loop.
SharedState(r) ==
    [server_fd |-> r.server_fd, ctx |-> r.ctx, use_ssl |-> r.use_ssl,
     use_ipv6 |-> r.use_ipv6, address |-> r.address, port |-> r.port,
     cert_file |-> r.cert_file, key_file |-> r.key_file]

\* C25: a step of the thread made for a connection (the connection of a
\* running thread changes and the process goes on) leaves the shared
\* members of every listener, and its listening socket, as they were.
C25_HandlersLeaveListenerState ==
    [][\A c \in Conns :
          (Live(c) /\ conn'[c] # conn[c] /\ proc' = "running")
             => \A l \in Listeners :
                   /\ SharedState(lis'[l]) = SharedState(lis[l])
                   /\ lis[l].server_fd \in openfds
                         => lis'[l].server_fd \in openfds']_vars

\* C25 witness: a plaintext and a TLS handler ran to their ends and both
\* listeners are in their loops.
C25_Witness ==
    /\ Running
    /\ \A l \in Listeners : InLoop(l) /\ lis[l].server_fd \in openfds
    /\ \E c, d \in Conns :
          /\ Plain(c) /\ conn[c].threads > 0 /\ conn[c].pc = "done"
          /\ Tls(d) /\ conn[d].threads > 0 /\ conn[d].pc = "done"

\* C26: a listener that went away (its constructor or its startup threw)
\* holds no TLS context any more: none was made, or it was released.
C26_ContextReleasedWithListener ==
    \A l \in Listeners : lis[l].pc = "failed" => lis[l].ctx \in {"null", "freed"}

\* How often event e is in the events of c.
Count(c, e) == Cardinality({i \in DOMAIN conn[c].events : conn[c].events[i] = e})

\* C27: when every blocking call returns, a thread made for a connection
\* ends; and it never makes more than one read or more than one write.
C27_HandlerTerminates ==
    /\ \A c \in Conns : Live(c) ~> (conn[c].threads > 0 /\ conn[c].pc = "done")
    /\ [](\A c \in Conns : Count(c, "read") <= 1 /\ Count(c, "write") <= 1)

\* C27 witness: the thread of a TLS connection has ended after its read,
\* its write, both shutdowns and the free.
C27_Witness ==
    \E c \in Conns :
        /\ Tls(c) /\ conn[c].threads > 0 /\ conn[c].pc = "done"
        /\ Count(c, "read") = 1 /\ Count(c, "write") = 1
        /\ Count(c, "shutdown") = 2 /\ Count(c, "free") = 1

\* C28: use_ipv6_ is false until getaddrinfo returned and from then on
\* tells whether the first result is an IPv6 one; the listening socket is
\* of that family (AF_INET6, AF_INET otherwise) and is bound to an address
\* of that family, the first result.
C28_SocketFamilyOfFirstResult ==
    \A l \in Listeners :
        /\ lis[l].use_ipv6 = (Len(lis[l].trail) >= 1 /\ lis[l].trail[1].ok /\ env.v6)
        /\ lis[l].family # "none" => lis[l].family = FirstResultFamily
        /\ lis[l].bound # "none" => lis[l].bound = lis[l].family
        /\ lis[l].family # "none"
              <=> (Len(lis[l].trail) >= Len(<<"getaddrinfo", "socket">>)
                      /\ lis[l].trail[Len(<<"getaddrinfo", "socket">>)].ok)

\* C28 witness: the first result is an IPv4 one and both listeners are in
\* their loops on AF_INET sockets bound to it.
C28_Witness ==
    /\ ~env.v6
    /\ \A l \in Listeners :
          /\ InLoop(l)
          /\ lis[l].family = "AF_INET"
          /\ lis[l].bound = "AF_INET"

\* C29: the TLS listener is constructed with port "443" whatever -p says,
\* the plaintext listener with the port of -p, or "80" without -p.
C29_ListenerPorts ==
    /\ Constructed("https") => lis["https"].port = "443"
    /\ Constructed("http")
          => lis["http"].port = (IF env.port = "" THEN "80" ELSE env.port)

\* C29 witness: with -p 8080 both listeners are in their loops, the
\* plaintext one on 8080 and the TLS one on 443.
C29_Witness ==
    /\ env.port = "8080"
    /\ InLoop("http") /\ lis["http"].port = "8080"
    /\ InLoop("https") /\ lis["https"].port = "443"

\* C31: once a thread has closed the descriptor of its connection, it makes
\* no further call that works on that descriptor number through the
\* session: no read, no write, no shutdown comes after the close.
C31_NothingOnDescriptorAfterClose ==
    \A c \in Conns :
        \A i, j \in DOMAIN conn[c].events :
            (i < j /\ conn[c].events[i] = "close")
                => conn[c].events[j] \notin {"read", "write", "shutdown"}

\* C32: a session the loop made is freed exactly when the loop abandons it
\* after a failed handshake or when the thread made for it ends: by the
\* loop alone in the first case, by one SSL_free of the lambda in the
\* second, which is the last call the thread makes on it.
C32_SessionFreedOnce ==
    \A c \in Conns :
        /\ Count(c, "free") <= 1
        /\ \A i \in DOMAIN conn[c].events :
              conn[c].events[i] = "free" => i = Len(conn[c].events)
        /\ conn[c].ssl = "freed"
              <=> (conn[c].pc = "abandoned" \/ (Tls(c) /\ conn[c].pc = "done"))
        /\ conn[c].pc = "abandoned"
              => (conn[c].threads = 0 /\ Count(c, "free") = 0)
        /\ (Tls(c) /\ conn[c].pc = "done") => Count(c, "free") = 1

\* C32 witness: the session of a failed handshake was freed by the loop, a
\* later session was given its address, handled by a thread and freed.
C32_Witness ==
    \E c, d \in Conns :
        /\ conn[c].pc = "abandoned" /\ conn[c].ssl = "freed"
        /\ Tls(d) /\ conn[d].pc = "done" /\ conn[d].ssl = "freed"
        /\ conn[d].sslp = conn[c].sslp
        /\ Count(d, "shutdown") >= 1

\* C33: a client of the TLS listener that does not complete its handshake
\* keeps no other client waiting: as long as the run has a connection left
\* to accept, the loop of the TLS listener is in accept() and can take it.
C33_StalledHandshakeKeepsNobodyWaiting ==
    \A l \in Listeners :
        (Running /\ ReachedAccepting(l) /\ lis[l].use_ssl /\ nconn < MaxConn)
            => ENABLED AcceptOk(l)

\* C34: a step taken by one listener, or by a thread working on one of its
\* connections, leaves the other listener as it is: its members, its
\* connections and the threads working on them.
C34_StepOfOneListenerLeavesTheOther ==
    [][\A l, k \in Listeners :
          (l # k /\ (lis'[l] # lis[l]
                       \/ \E c \in Conns : conn[c].lis = l /\ conn'[c] # conn[c]))
             => /\ lis'[k] = lis[k]
                /\ \A d \in Conns : conn[d].lis = k => conn'[d] = conn[d]]_vars

\* C35: a listener whose startup failed after its socket was made holds
\* neither the result of getaddrinfo nor the socket: it freed the one and
\* closed the other before run() threw.
C35_FailedStartupLeavesNothing ==
    \A l \in Listeners :
        (lis[l].pc = "failed" /\ lis[l].family # "none")
            => /\ ~lis[l].res
               /\ \E i \in DOMAIN lis[l].trail : lis[l].trail[i].call = "close"

\* Listener l has been constructed or its constructor has thrown.
CtorDone(l) == lis[l].pc \notin {"unstarted", "ctor"}

\* Both paths were given to the constructor of l, non-empty.
BothPaths(l) == lis[l].cert_file # "" /\ lis[l].key_file # ""

\* C36: use_ssl_ is set exactly when both paths are given; a connection of
\* a listener goes through SSL_accept exactly when that is so, and is read
\* by the plaintext handler otherwise; a listener given fewer than two
\* paths makes no context and its constructor does not throw, whatever the
\* files hold.
C36_HandshakeIffBothPaths ==
    /\ \A l \in Listeners :
          CtorDone(l)
             => /\ lis[l].use_ssl <=> BothPaths(l)
                /\ ~BothPaths(l)
                      => /\ lis[l].ctx = "null"
                         /\ ~(lis[l].pc = "failed" /\ lis[l].trail = <<>>)
    /\ \A c \in Conns :
          conn[c].lis \in Listeners
             => /\ conn[c].hs # "none" <=> BothPaths(conn[c].lis)
                /\ conn[c].ssl # "none" <=> BothPaths(conn[c].lis)
                /\ (conn[c].didread /\ ~BothPaths(conn[c].lis))
                      => (conn[c].task /\ conn[c].threads = 1 /\ Plain(c))

\* C36 witness: a listener given a certificate path and no key path, the
\* certificate file being one that does not load, has accepted a
\* connection without a handshake and read from it in its plaintext handler.
C36_Witness ==
    /\ ~env.cert
    /\ \E c \in Conns :
          /\ conn[c].lis \in Listeners
          /\ lis[conn[c].lis].cert_file # "" /\ lis[conn[c].lis].key_file = ""
          /\ conn[c].didread /\ conn[c].hs = "none"

\* C37: whatever -p says, the two listeners are constructed with the same
\* address and with two different ports.
C37_ListenersOnDifferentPorts ==
    (Constructed("http") /\ Constructed("https"))
        => /\ lis["http"].address = lis["https"].address
           /\ lis["http"].port # lis["https"].port

\* C38: no connection of the listener built with (address, port) gets a
\* session made from the context or a handshake: each is handed to the
\* plaintext handler as it is accepted.
C38_TwoArgListenerIsPlaintext ==
    \A c \in Conns :
        conn[c].lis = "http"
            => (conn[c].ssl = "none" /\ conn[c].hs = "none" /\ conn[c].task)

\* The options given on the command line of the call, as the loop collects
\* them: for an option given more than once the last argument.
Given == GetoptLoop(DefaultOptions, cli.args)

\* C39: when parse_options has returned, the struct the caller passed as
\* options holds every option of the command line.
C39_OutputParameterPopulated ==
    cli.pc = "returned" => cli.options = Given

====
